---- MODULE Spec2Model ----
(***************************************************************************)
(* Model of the matugen colour cache of matuwrap's native module           *)
(* (src/rust/src/lib.rs): get_cached_colors, invalidate_color_cache and    *)
(* the helpers load_cache, save_cache, run_matugen and get_mtime, over an  *)
(* explicit file system (the cache directory, the cache file, the          *)
(* wallpapers) and an external tool whose outcome is nondeterministic.     *)
(***************************************************************************)
EXTENDS Integers, Sequences, FiniteSets, TLC

VARIABLES
    cacheDir,    \* TRUE iff dirs::cache_dir() yields a directory
    cacheFile,   \* the cache directory and colors.json: [st, data]
    wallpaper,   \* per wallpaper file: its modification time, or None
    last,        \* record of the step just taken (operation, inputs, outcome)
    prevGet,     \* the latest get_cached_colors call, and whether the cache
                 \* was touched by anything else since
    cachedAt,    \* full-resolution mtime the wallpaper had when the entry
                 \* now in the cache file was persisted, or None
    xIn,         \* tool output handed to run_matugen (extraction runs)
    xOut,        \* what run_matugen made of xIn (extraction runs)
    call,        \* a get_cached_colors call in progress, statement by
                 \* statement (stepwise runs)
    pairedWith,  \* the mtime the wallpaper had when the tool extracted the
                 \* colours now in the cache file (stepwise runs)
    rd,          \* a load_cache in progress, one read() at a time (torn runs)
    wr,          \* another process's fs::write in progress (torn runs)
    written,     \* every text some save_cache has written completely
    lineIn,      \* the line last given to parse_sink_line
    lineOut,     \* and what it returned
    audioIn,     \* what wpctl did in the last get_audio_sinks call
    audioOut,    \* and what the call returned
    ipcIn,       \* environment, sockets and command of the last hyprctl call
    ipcOut       \* and what the call returned

\* inputs and results of the calls that keep no state
callVars == <<lineIn, lineOut, audioIn, audioOut, ipcIn, ipcOut>>

vars == <<cacheDir, cacheFile, wallpaper, last, prevGet, cachedAt, xIn, xOut,
          call, pairedWith, rd, wr, written, callVars>>

-----------------------------------------------------------------------------
(* Bounds *)

MaxSec == 1      \* wallpaper mtimes have whole seconds 0..MaxSec
MaxSub == 1      \* and a sub-second part 0..MaxSub

-----------------------------------------------------------------------------
(* Option<T>: None is the empty sequence, Some(x) the one-element one *)

None == <<>>
Some(x) == <<x>>

-----------------------------------------------------------------------------
(* Wallpaper paths. Two of the path strings name the same file, so that    *)
(* "same file, same mtime" and "same path string" can differ.              *)

Paths == {"/w/a.png", "/w/./a.png", "/w/b.png"}
Files == {"a", "b"}

FileOf(path) == IF path = "/w/b.png" THEN "b" ELSE "a"

Mtimes == {None} \cup {Some([sec |-> s, sub |-> u]) : s \in 0..MaxSec, u \in 0..MaxSub}

-----------------------------------------------------------------------------
(* Colour mappings: HashMap<String, String> as a function on its key set   *)

Hex == {"#112233", "#000000"}
EmptyMap == [k \in {} |-> ""]

Insert(map, key, val) ==
    [k \in (DOMAIN map) \cup {key} |-> IF k = key THEN val ELSE map[k]]

-----------------------------------------------------------------------------
(* serde_json::Value, as far as run_matugen looks at it *)

NoFields == [k \in {} |-> ""]
JStr(s) == [t |-> "string", s |-> s, f |-> NoFields]
JNum == [t |-> "number", s |-> "", f |-> NoFields]
JObj(f) == [t |-> "object", s |-> "", f |-> f]

\* Value::get(key): Some only on an object that has the key
Get(v, key) == IF v.t = "object" /\ key \in DOMAIN v.f THEN Some(v.f[key]) ELSE None

\* Value::as_str
AsStr(v) == IF v.t = "string" THEN Some(v.s) ELSE None

\* Value::as_object
AsObject(v) == IF v.t = "object" THEN Some(v.f) ELSE None

\* Option::and_then(|v| v.as_str())
AndThenAsStr(o) == IF o = None THEN None ELSE AsStr(o[1])

\* serde_json::from_str on the tool's stdout
FromStrValue(stdout) == IF stdout.wellformed THEN Some(stdout.json) ELSE None

-----------------------------------------------------------------------------
(* run_matugen *)

\* the colour chosen for one entry of the colors object (lines 178-186);
\* None is the `continue`
ColorOfDefaultFirst(val) ==
    LET dark == AndThenAsStr(Get(val, "dark"))
        default == AndThenAsStr(Get(val, "default"))
    IN  IF default # None THEN default
        ELSE IF dark # None THEN dark
        ELSE AsStr(val)

ColorOf(val) ==
    LET dark == AndThenAsStr(Get(val, "dark"))
        default == AndThenAsStr(Get(val, "default"))
    IN  IF dark # None THEN dark
        ELSE IF default # None THEN default
        ELSE AsStr(val)

\* the for loop over the colors object (lines 176-188)
RECURSIVE CollectColors(_, _, _)
CollectColors(obj, todo, colors) ==
    IF todo = {} THEN colors
    ELSE LET key == CHOOSE k \in todo : TRUE
             color == ColorOf(obj[key])
         IN  CollectColors(obj, todo \ {key},
                           IF color = None THEN colors
                           ELSE Insert(colors, key, color[1]))

\* tool = [spawned, success, stdout]: what Command::output() gives
RunMatugenNoStatusCheck(wallpaper_path, tool) ==
    IF ~tool.spawned THEN None
    ELSE LET json == FromStrValue(tool.stdout) IN
         IF json = None THEN None
         ELSE LET colors_obj == Get(json[1], "colors") IN
              IF colors_obj = None THEN None
              ELSE LET obj == AsObject(colors_obj[1]) IN
                   IF obj = None THEN Some(EmptyMap)
                   ELSE Some(CollectColors(obj[1], DOMAIN obj[1], EmptyMap))

RunMatugen(wallpaper_path, tool) ==
    IF ~tool.spawned THEN None
    ELSE IF ~tool.success THEN None
    ELSE LET json == FromStrValue(tool.stdout) IN
         IF json = None THEN None
         ELSE LET colors_obj == Get(json[1], "colors") IN
              IF colors_obj = None THEN None
              ELSE LET obj == AsObject(colors_obj[1]) IN
                   IF obj = None THEN Some(EmptyMap)
                   ELSE Some(CollectColors(obj[1], DOMAIN obj[1], EmptyMap))

-----------------------------------------------------------------------------
(* The cache file's text: a sequence of tokens, so that a truncated file   *)
(* is a proper prefix of a written one.                                    *)

Tok(k, s, n, c) == [k |-> k, s |-> s, n |-> n, c |-> c]
Open == Tok("{", "", 0, EmptyMap)
Close == Tok("}", "", 0, EmptyMap)

\* serde_json::to_string(&ColorCache)
to_string(cache) ==
    << Open,
       Tok("wallpaper_path", cache.wallpaper_path, 0, EmptyMap),
       Tok("wallpaper_mtime", "", cache.wallpaper_mtime, EmptyMap),
       Tok("colors", "", 0, cache.colors),
       Close >>

CountKey(data, key) == Cardinality({i \in 2..(Len(data) - 1) : data[i].k = key})
FieldOf(data, key) == data[CHOOSE i \in 2..(Len(data) - 1) : data[i].k = key]

FromStrCacheLenient(data) ==
    IF /\ Len(data) >= 1
       /\ data[1] = Open
       /\ Cardinality({i \in 2..Len(data) : data[i].k = "wallpaper_path"}) = 1
       /\ Cardinality({i \in 2..Len(data) : data[i].k = "wallpaper_mtime"}) = 1
       /\ Cardinality({i \in 2..Len(data) : data[i].k = "colors"}) = 1
    THEN Some([wallpaper_path |->
                   data[CHOOSE i \in 2..Len(data) : data[i].k = "wallpaper_path"].s,
               wallpaper_mtime |->
                   data[CHOOSE i \in 2..Len(data) : data[i].k = "wallpaper_mtime"].n,
               colors |->
                   data[CHOOSE i \in 2..Len(data) : data[i].k = "colors"].c])
    ELSE None

\* serde_json::from_str::<ColorCache>: one object with each of the three
\* fields exactly once; anything else is an error
FromStrCache(data) ==
    IF /\ Len(data) >= 2
       /\ data[1] = Open
       /\ data[Len(data)] = Close
       /\ \A i \in 2..(Len(data) - 1) : data[i].k \notin {"{", "}"}
       /\ CountKey(data, "wallpaper_path") = 1
       /\ CountKey(data, "wallpaper_mtime") = 1
       /\ CountKey(data, "colors") = 1
    THEN Some([wallpaper_path |-> FieldOf(data, "wallpaper_path").s,
               wallpaper_mtime |-> FieldOf(data, "wallpaper_mtime").n,
               colors |-> FieldOf(data, "colors").c])
    ELSE None

-----------------------------------------------------------------------------
(* File system helpers *)

\* cacheFile.st: "nodir" (no matuwrap directory), "nofile", "file"
NoDir == [st |-> "nodir", data |-> <<>>]
NoFile == [st |-> "nofile", data |-> <<>>]
FileWith(data) == [st |-> "file", data |-> data]

get_cache_path(cdir) == IF cdir THEN Some("matuwrap/colors.json") ELSE None

\* fs::read_to_string(&cache_path)
ReadToString(file) == IF file.st = "file" THEN Some(file.data) ELSE None

\* get_mtime: the wallpaper's mtime in whole seconds (Duration::as_secs)
get_mtime_full(path, wp) ==
    LET m == wp[FileOf(path)] IN
    IF m = None THEN None ELSE Some(m[1].sec * (MaxSub + 1) + m[1].sub)

get_mtime(path, wp) ==
    LET m == wp[FileOf(path)] IN
    IF m = None THEN None ELSE Some(m[1].sec)

-----------------------------------------------------------------------------
(* load_cache, save_cache *)

LoadCacheAnyPath(wallpaper_path, cdir, file, wp) ==
    IF get_cache_path(cdir) = None THEN None
    ELSE LET data == ReadToString(file) IN
         IF data = None THEN None
         ELSE LET cache == FromStrCache(data[1]) IN
              IF cache = None THEN None
              ELSE LET current_mtime == get_mtime(wallpaper_path, wp) IN
                   IF current_mtime = None THEN None
                   ELSE IF cache[1].wallpaper_mtime # current_mtime[1] THEN None
                   ELSE Some(cache[1].colors)

LoadCacheAnyMtime(wallpaper_path, cdir, file, wp) ==
    IF get_cache_path(cdir) = None THEN None
    ELSE LET data == ReadToString(file) IN
         IF data = None THEN None
         ELSE LET cache == FromStrCache(data[1]) IN
              IF cache = None THEN None
              ELSE IF cache[1].wallpaper_path # wallpaper_path THEN None
              ELSE LET current_mtime == get_mtime(wallpaper_path, wp) IN
                   IF current_mtime = None THEN None
                   ELSE Some(cache[1].colors)

LoadCache(wallpaper_path, cdir, file, wp) ==
    IF get_cache_path(cdir) = None THEN None
    ELSE LET data == ReadToString(file) IN
         IF data = None THEN None
         ELSE LET cache == FromStrCache(data[1]) IN
              IF cache = None THEN None
              ELSE IF cache[1].wallpaper_path # wallpaper_path THEN None
              ELSE LET current_mtime == get_mtime(wallpaper_path, wp) IN
                   IF current_mtime = None THEN None
                   ELSE IF cache[1].wallpaper_mtime # current_mtime[1] THEN None
                   ELSE Some(cache[1].colors)

\* how many tokens a failing fs::write may leave in the file
PartialCuts == {0, 4}

\* What the file system may do to one save_cache call: whether
\* create_dir_all succeeds when the directory is missing, and how fs::write
\* ends: "ok", "open_fail" (nothing written, file as before) or "partial"
\* (file created and truncated, only the first `cut` tokens written).
SaveIo ==
    [mkdir : BOOLEAN, write : {"ok", "open_fail"}, cut : {0}]
    \cup [mkdir : BOOLEAN, write : {"partial"}, cut : PartialCuts]

\* fs::create_dir_all(cache_path.parent()): Some(dir state) or None
CreateDirAll(file, io) ==
    IF file.st # "nodir" THEN Some(file)
    ELSE IF io.mkdir THEN Some(NoFile)
    ELSE None

FsWriteAppend(file, json, io) ==
    CASE io.write = "ok" -> [ok |-> TRUE, file |-> FileWith(file.data \o json)]
      [] io.write = "open_fail" -> [ok |-> FALSE, file |-> file]
      [] OTHER -> [ok |-> FALSE, file |-> FileWith(SubSeq(json, 1, io.cut))]

\* fs::write(&cache_path, json): [ok, file]
FsWrite(file, json, io) ==
    CASE io.write = "ok" -> [ok |-> TRUE, file |-> FileWith(json)]
      [] io.write = "open_fail" -> [ok |-> FALSE, file |-> file]
      [] OTHER -> [ok |-> FALSE, file |-> FileWith(SubSeq(json, 1, io.cut))]

\* save_cache: [ok, file]; ok is the Some(()) of the source
SaveCacheStalePath(wallpaper_path, colors, cdir, file, wp, io) ==
    IF get_cache_path(cdir) = None THEN [ok |-> FALSE, file |-> file]
    ELSE LET dir == CreateDirAll(file, io) IN
         IF dir = None THEN [ok |-> FALSE, file |-> file]
         ELSE LET mtime == get_mtime(wallpaper_path, wp) IN
              IF mtime = None THEN [ok |-> FALSE, file |-> dir[1]]
              ELSE LET cache == [wallpaper_path |-> "",
                                 wallpaper_mtime |-> mtime[1],
                                 colors |-> colors]
                   IN  FsWrite(dir[1], to_string(cache), io)

SaveCache(wallpaper_path, colors, cdir, file, wp, io) ==
    IF get_cache_path(cdir) = None THEN [ok |-> FALSE, file |-> file]
    ELSE LET dir == CreateDirAll(file, io) IN
         IF dir = None THEN [ok |-> FALSE, file |-> file]
         ELSE LET mtime == get_mtime(wallpaper_path, wp) IN
              IF mtime = None THEN [ok |-> FALSE, file |-> dir[1]]
              ELSE LET cache == [wallpaper_path |-> wallpaper_path,
                                 wallpaper_mtime |-> mtime[1],
                                 colors |-> colors]
                   IN  FsWrite(dir[1], to_string(cache), io)

-----------------------------------------------------------------------------
(* get_cached_colors, invalidate_color_cache *)

\* PyResult values
OkNone == [kind |-> "Ok(None)", colors |-> EmptyMap]
OkSome(colors) == [kind |-> "Ok(Some)", colors |-> colors]
OkUnit == [kind |-> "Ok(())", colors |-> EmptyMap]
Err == [kind |-> "Err", colors |-> EmptyMap]
NoResult == [kind |-> "-", colors |-> EmptyMap]

Outcome(file, result, hit, invoked, extracted, saved) ==
    [file |-> file, result |-> result, hit |-> hit, invoked |-> invoked,
     extracted |-> extracted, saved |-> saved]

\* the whole handler: the cache file it leaves, the value it returns, and
\* which of its branches ran
GetCachedColorsSaveFatal(wallpaper_path, tool, io, cdir, file, wp) ==
    LET cached == LoadCache(wallpaper_path, cdir, file, wp) IN
    IF cached # None
    THEN Outcome(file, OkSome(cached[1]), TRUE, FALSE, FALSE, FALSE)
    ELSE LET colors == RunMatugen(wallpaper_path, tool) IN
         IF colors = None
         THEN Outcome(file, OkNone, FALSE, TRUE, FALSE, FALSE)
         ELSE LET saved == SaveCache(wallpaper_path, colors[1], cdir, file, wp, io)
              IN  Outcome(saved.file,
                          IF saved.ok THEN OkSome(colors[1]) ELSE OkNone,
                          FALSE, TRUE, TRUE, saved.ok)

GetCachedColorsDropOnFailure(wallpaper_path, tool, io, cdir, file, wp) ==
    LET cached == LoadCache(wallpaper_path, cdir, file, wp) IN
    IF cached # None
    THEN Outcome(file, OkSome(cached[1]), TRUE, FALSE, FALSE, FALSE)
    ELSE LET colors == RunMatugen(wallpaper_path, tool) IN
         IF colors = None
         THEN Outcome(IF file.st = "file" THEN NoFile ELSE file,
                      OkNone, FALSE, TRUE, FALSE, FALSE)
         ELSE LET saved == SaveCache(wallpaper_path, colors[1], cdir, file, wp, io)
              IN  Outcome(saved.file, OkSome(colors[1]),
                          FALSE, TRUE, TRUE, saved.ok)

GetCachedColors(wallpaper_path, tool, io, cdir, file, wp) ==
    LET cached == LoadCache(wallpaper_path, cdir, file, wp) IN
    IF cached # None
    THEN Outcome(file, OkSome(cached[1]), TRUE, FALSE, FALSE, FALSE)
    ELSE LET colors == RunMatugen(wallpaper_path, tool) IN
         IF colors = None
         THEN Outcome(file, OkNone, FALSE, TRUE, FALSE, FALSE)
         ELSE LET saved == SaveCache(wallpaper_path, colors[1], cdir, file, wp, io)
              IN  Outcome(saved.file, OkSome(colors[1]),
                          FALSE, TRUE, TRUE, saved.ok)

\* fs::remove_file(cache_path): [ok, file]; removeOk is whether the file
\* system lets an existing file be unlinked
RemoveFile(file, removeOk) ==
    IF file.st # "file" THEN [ok |-> FALSE, file |-> file]
    ELSE IF removeOk THEN [ok |-> TRUE, file |-> NoFile]
    ELSE [ok |-> FALSE, file |-> file]

\* invalidate_color_cache: [file, result, removed]
InvalidateColorCachePropagates(cdir, file, removeOk) ==
    IF get_cache_path(cdir) = None
    THEN [file |-> file, result |-> OkUnit, removed |-> FALSE]
    ELSE LET r == RemoveFile(file, removeOk) IN
         [file |-> r.file, result |-> IF r.ok THEN OkUnit ELSE Err,
          removed |-> r.ok]

InvalidateColorCache(cdir, file, removeOk) ==
    IF get_cache_path(cdir) = None
    THEN [file |-> file, result |-> OkUnit, removed |-> FALSE]
    ELSE LET r == RemoveFile(file, removeOk) IN
         [file |-> r.file, result |-> OkUnit, removed |-> r.ok]

-----------------------------------------------------------------------------
(* What the external tool may answer *)

Tool(spawned, success, wellformed, json) ==
    [spawned |-> spawned, success |-> success,
     stdout |-> [wellformed |-> wellformed, json |-> json]]

NoTool == Tool(FALSE, FALSE, FALSE, JNum)

Report(colors) == JObj([k \in {"colors"} |-> colors])
Entry(val) == JObj([k \in {"primary"} |-> val])
Variant(dark, default) ==
    JObj([k \in {"dark", "default"} |-> IF k = "dark" THEN JStr(dark) ELSE JStr(default)])

GoodReports ==
    { Report(Entry(Variant("#112233", "#000000"))),
      Report(Entry(JStr("#000000"))) }

ToolOutputs ==
    { Tool(FALSE, FALSE, FALSE, JNum),                             \* spawn error
      Tool(TRUE, FALSE, TRUE, Report(Entry(JStr("#000000")))),     \* nonzero exit
      Tool(TRUE, TRUE, FALSE, JNum),                               \* not JSON
      Tool(TRUE, TRUE, TRUE, JObj(NoFields)) }                     \* no "colors"
    \cup { Tool(TRUE, TRUE, TRUE, r) : r \in GoodReports }

\* Cache files written by something else than save_cache: complete JSON
\* objects that are not a ColorCache
ForeignData ==
    { << Open, Tok("wallpaper_path", "/w/a.png", 0, EmptyMap),
         Tok("colors", "", 0, EmptyMap), Close >>,
      << Open, Tok("wallpaper_path", "/w/a.png", 0, EmptyMap),
         Tok("wallpaper_mtime", "", 0, EmptyMap),
         Tok("wallpaper_mtime", "", 1, EmptyMap),
         Tok("colors", "", 0, EmptyMap), Close >> }

-----------------------------------------------------------------------------
(* State machine *)

Step(op, path, tool, result, hit, invoked, extracted, saved, removed, cache, after) ==
    [op |-> op, path |-> path, tool |-> tool, result |-> result,
     cache |-> cache, after |-> after,
     hit |-> hit, invoked |-> invoked, extracted |-> extracted,
     saved |-> saved, removed |-> removed]

NoIo == [mkdir |-> FALSE, write |-> "open_fail", cut |-> 0]

EnvStep(op) ==
    Step(op, "", NoTool, NoResult, FALSE, FALSE, FALSE, FALSE, FALSE, "-", "-")

NoPrevGet ==
    [valid |-> FALSE, path |-> "", mtime |-> None, invoked |-> FALSE, kept |-> FALSE]

\* no read, no write in progress
NoRead ==
    [pc |-> "idle", path |-> "", hint |-> 0, buf |-> <<>>, hit |-> FALSE,
     result |-> NoResult]
NoWrite == [pc |-> "idle", json |-> <<>>]

\* no call in progress
NoCall ==
    [pc |-> "idle", path |-> "", colors |-> EmptyMap, saw |-> None,
     result |-> NoResult]

Init ==
    /\ cacheDir \in BOOLEAN
    /\ cacheFile = NoDir
    /\ wallpaper \in [Files -> {None, Some([sec |-> 0, sub |-> 0])}]
    /\ last = EnvStep("init")
    /\ prevGet = NoPrevGet
    /\ cachedAt = None
    /\ xIn = NoTool
    /\ xOut = None
    /\ call = NoCall
    /\ pairedWith = None
    /\ rd = NoRead
    /\ wr = NoWrite
    /\ written = {}
    /\ lineIn = None
    /\ lineOut = None
    /\ audioIn = None
    /\ audioOut = None
    /\ ipcIn = None
    /\ ipcOut = None

\* what load_cache finds when called for wallpaper_path (lines 116-128):
\* which of its early returns it takes, or "valid"
CacheFound(wallpaper_path, cdir, file, wp) ==
    IF get_cache_path(cdir) = None THEN "nopath"
    ELSE IF ReadToString(file) = None THEN "absent"
    ELSE LET cache == FromStrCache(file.data) IN
         IF cache = None THEN "malformed"
         ELSE IF cache[1].wallpaper_path # wallpaper_path THEN "other_path"
         ELSE IF get_mtime(wallpaper_path, wp) = None THEN "no_mtime"
         ELSE IF cache[1].wallpaper_mtime # get_mtime(wallpaper_path, wp)[1]
              THEN "stale_mtime"
         ELSE "valid"

\* how this call relates to the get_cached_colors call before it: "-" unless
\* it names the same path, sees the same whole-second mtime and nothing else
\* touched the cache in between
Repeats(wallpaper_path, prev, wp) ==
    IF ~(prev.valid /\ prev.path = wallpaper_path
         /\ prev.mtime = get_mtime(wallpaper_path, wp))
    THEN "-"
    ELSE IF prev.kept THEN (IF prev.invoked THEN "after_saved" ELSE "after_hit")
    ELSE IF prev.invoked THEN "after_unsaved"
    ELSE "-"

\* The tool answers only when it is run, and the file system is asked to
\* write only when there is something to save.
ToolChoices(found) ==
    IF found = "valid" THEN {NoTool} ELSE ToolOutputs

IoChoices(found, wallpaper_path, tool) ==
    IF \/ found \in {"valid", "nopath"}
       \/ RunMatugen(wallpaper_path, tool) = None
    THEN {NoIo}
    ELSE IF cacheFile.st = "nodir"
    THEN {NoIo} \cup {io \in SaveIo : io.mkdir}
    ELSE {io \in SaveIo : io.mkdir}

\* one call of get_cached_colors(wallpaper_path)
GetCachedColorsCall ==
    \E wallpaper_path \in Paths :
    \E found \in {CacheFound(wallpaper_path, cacheDir, cacheFile, wallpaper)} :
    \E tool \in ToolChoices(found) :
    \E io \in IoChoices(found, wallpaper_path, tool) :
        \E r \in {GetCachedColors(wallpaper_path, tool, io, cacheDir, cacheFile, wallpaper)} :
            /\ cacheFile' = r.file
            /\ last' = Step("get", wallpaper_path,
                            tool,
                            r.result, r.hit, r.invoked, r.extracted, r.saved, FALSE,
                            found,
                            Repeats(wallpaper_path, prevGet, wallpaper))
            /\ prevGet' = [valid |-> TRUE, path |-> wallpaper_path,
                           mtime |-> get_mtime(wallpaper_path, wallpaper),
                           invoked |-> r.invoked, kept |-> r.hit \/ r.saved]
            /\ cachedAt' = IF r.saved THEN wallpaper[FileOf(wallpaper_path)]
                           ELSE IF r.file # cacheFile THEN None
                           ELSE cachedAt
            /\ UNCHANGED <<cacheDir, wallpaper, xIn, xOut, call, pairedWith, rd, wr, written,
                    callVars>>

\* one call of invalidate_color_cache()
InvalidateColorCacheCall ==
    \E removeOk \in BOOLEAN :
        \E r \in {InvalidateColorCache(cacheDir, cacheFile, removeOk)} :
            /\ cacheFile' = r.file
            /\ last' = Step("invalidate", "", NoTool, r.result,
                            FALSE, FALSE, FALSE, FALSE, r.removed,
                            IF cacheFile.st = "file" THEN "file" ELSE "absent", "-")
            /\ prevGet' = [prevGet EXCEPT !.valid = FALSE]
            /\ cachedAt' = IF r.removed THEN None ELSE cachedAt
            /\ UNCHANGED <<cacheDir, wallpaper, xIn, xOut, call, pairedWith, rd, wr, written,
                    callVars>>

\* the wallpaper file is rewritten, touched, deleted or created
TouchWallpaper ==
    \E f \in Files, m \in Mtimes :
        /\ wallpaper[f] # m
        /\ f = "b" => m \in {None, Some([sec |-> 0, sub |-> 0])}
        /\ wallpaper' = [wallpaper EXCEPT ![f] = m]
        /\ last' = EnvStep("touch")
        /\ UNCHANGED <<cacheDir, cacheFile, prevGet, cachedAt, xIn, xOut, call, pairedWith, rd, wr, written,
                    callVars>>

\* something else than save_cache writes the cache file
ForeignWrite ==
    \E data \in ForeignData :
        /\ cacheDir
        /\ cacheFile' = FileWith(data)
        /\ last' = EnvStep("foreign")
        /\ prevGet' = [prevGet EXCEPT !.valid = FALSE]
        /\ cachedAt' = None
        /\ UNCHANGED <<cacheDir, wallpaper, xIn, xOut, call, pairedWith, rd, wr, written,
                    callVars>>

Next ==
    \/ GetCachedColorsCall
    \/ InvalidateColorCacheCall
    \/ TouchWallpaper
    \/ ForeignWrite

Spec == Init /\ [][Next]_vars

TypeOK ==
    /\ cacheDir \in BOOLEAN
    /\ cacheFile.st \in {"nodir", "nofile", "file"}
    /\ wallpaper \in [Files -> Mtimes]
    /\ last.op \in {"init", "get", "invalidate", "touch", "foreign"}

-----------------------------------------------------------------------------
(* run_matugen alone, over every shape of the tool's colors object *)

Keys == {"primary", "secondary"}
VariantNames == {"dark", "default"}
Leaves == {JStr(h) : h \in Hex} \cup {JNum}
Variants == UNION {[D -> Leaves] : D \in SUBSET VariantNames}
EntryVals == Leaves \cup {JObj(v) : v \in Variants}
ColorObjects == UNION {[D -> EntryVals] : D \in SUBSET Keys}

ExtractInputs ==
    { Tool(TRUE, TRUE, TRUE, Report(JObj(obj))) : obj \in ColorObjects }
    \cup ToolOutputs

InitExtract ==
    /\ cacheDir = TRUE
    /\ cacheFile = NoDir
    /\ wallpaper = [f \in Files |-> None]
    /\ last = EnvStep("init")
    /\ prevGet = NoPrevGet
    /\ cachedAt = None
    /\ xIn \in ExtractInputs
    /\ xOut = None
    /\ call = NoCall
    /\ pairedWith = None
    /\ rd = NoRead
    /\ wr = NoWrite
    /\ written = {}
    /\ lineIn = None
    /\ lineOut = None
    /\ audioIn = None
    /\ audioOut = None
    /\ ipcIn = None
    /\ ipcOut = None

\* run_matugen applied to the tool output xIn
Extract ==
    /\ xOut = None
    /\ xOut' = Some(RunMatugen("/w/a.png", xIn))
    /\ UNCHANGED <<cacheDir, cacheFile, wallpaper, last, prevGet, cachedAt, xIn,
                   call, pairedWith, rd, wr, written,
                    callVars>>

NextExtract == Extract

SpecExtract == InitExtract /\ [][NextExtract]_vars

-----------------------------------------------------------------------------
(* get_cached_colors statement by statement: load_cache, run_matugen and   *)
(* save_cache are separate steps, and the wallpaper may be rewritten       *)
(* between any two of them.                                                *)

InitSteps ==
    /\ cacheDir = TRUE
    /\ cacheFile = NoDir
    /\ wallpaper \in [Files -> {None, Some([sec |-> 0, sub |-> 0])}]
    /\ last = EnvStep("init")
    /\ prevGet = NoPrevGet
    /\ cachedAt = None
    /\ xIn = NoTool
    /\ xOut = None
    /\ call = NoCall
    /\ pairedWith = None
    /\ rd = NoRead
    /\ wr = NoWrite
    /\ written = {}
    /\ lineIn = None
    /\ lineOut = None
    /\ audioIn = None
    /\ audioOut = None
    /\ ipcIn = None
    /\ ipcOut = None

\* lines 200-206: a call starts once the one before has returned; load_cache,
\* and the return of a hit
StepLoad ==
    \E wallpaper_path \in Paths :
    \E cached \in {LoadCache(wallpaper_path, cacheDir, cacheFile, wallpaper)} :
        /\ call.pc \in {"idle", "done"}
        /\ call' = IF cached # None
                   THEN [NoCall EXCEPT !.pc = "done", !.path = wallpaper_path,
                                       !.result = OkSome(cached[1])]
                   ELSE [NoCall EXCEPT !.pc = "missed", !.path = wallpaper_path]
        /\ UNCHANGED <<cacheDir, cacheFile, wallpaper, last, prevGet, cachedAt,
                       xIn, xOut, pairedWith, rd, wr, written,
                    callVars>>

\* lines 209-212: run_matugen reads the wallpaper as it is now
StepRunMatugen ==
    \E tool \in ToolOutputs :
    \E colors \in {RunMatugen(call.path, tool)} :
        /\ call.pc = "missed"
        /\ call' = IF colors = None
                   THEN [call EXCEPT !.pc = "done", !.result = OkNone]
                   ELSE [call EXCEPT !.pc = "extracted", !.colors = colors[1],
                                     !.saw = wallpaper[FileOf(call.path)]]
        /\ UNCHANGED <<cacheDir, cacheFile, wallpaper, last, prevGet, cachedAt,
                       xIn, xOut, pairedWith, rd, wr, written,
                    callVars>>

\* lines 215-222: save_cache reads the mtime the wallpaper has now
StepSaveCache ==
    \E io \in {i \in SaveIo : i.mkdir} \cup {NoIo} :
    \E saved \in {SaveCache(call.path, call.colors, cacheDir, cacheFile, wallpaper, io)} :
        /\ call.pc = "extracted"
        /\ io = NoIo => cacheFile.st = "nodir"
        /\ cacheFile' = saved.file
        /\ pairedWith' = IF saved.ok THEN Some(call.saw)
                         ELSE IF saved.file # cacheFile THEN None
                         ELSE pairedWith
        /\ call' = [call EXCEPT !.pc = "done", !.result = OkSome(call.colors)]
        /\ UNCHANGED <<cacheDir, wallpaper, last, prevGet, cachedAt, xIn, xOut,
                       rd, wr, written,
                    callVars>>

\* the wallpaper file is rewritten, touched, deleted or created
StepTouchWallpaper ==
    \E f \in Files, m \in Mtimes :
        /\ wallpaper[f] # m
        /\ f = "b" => m \in {None, Some([sec |-> 0, sub |-> 0])}
        /\ wallpaper' = [wallpaper EXCEPT ![f] = m]
        /\ UNCHANGED <<cacheDir, cacheFile, last, prevGet, cachedAt, xIn, xOut,
                       call, pairedWith, rd, wr, written,
                    callVars>>

NextSteps ==
    \/ StepLoad
    \/ StepRunMatugen
    \/ StepSaveCache
    \/ StepTouchWallpaper

SpecSteps == InitSteps /\ [][NextSteps]_vars

-----------------------------------------------------------------------------
(* load_cache against other processes that run save_cache: read_to_string  *)
(* is a loop of read() calls and fs::write is open(O_TRUNC) followed by    *)
(* write() calls; nothing locks the file.                                  *)

\* tokens a read() takes when read_to_string has no size to go by
ProbeTokens == 2

\* the entries the other processes persist
TornEntries ==
    { [wallpaper_path |-> "/w/a.png", wallpaper_mtime |-> 0,
       colors |-> [k \in {"primary"} |-> "#112233"]],
      [wallpaper_path |-> "/w/b.png", wallpaper_mtime |-> 0,
       colors |-> [k \in {"primary"} |-> "#000000"]] }

InitTorn ==
    /\ cacheDir = TRUE
    /\ cacheFile = NoFile
    /\ wallpaper = [f \in Files |-> Some([sec |-> 0, sub |-> 0])]
    /\ last = EnvStep("init")
    /\ prevGet = NoPrevGet
    /\ cachedAt = None
    /\ xIn = NoTool
    /\ xOut = None
    /\ call = NoCall
    /\ pairedWith = None
    /\ rd = NoRead
    /\ wr = NoWrite
    /\ written = {}
    /\ lineIn = None
    /\ lineOut = None
    /\ audioIn = None
    /\ audioOut = None
    /\ ipcIn = None
    /\ ipcOut = None

\* line 117, File::open and the size hint; a missing file is a miss
TornOpen ==
    \E wallpaper_path \in {"/w/a.png", "/w/b.png"} :
        /\ rd.pc \in {"idle", "done"}
        /\ rd' = IF cacheFile.st = "file"
                 THEN [NoRead EXCEPT !.pc = "reading", !.path = wallpaper_path,
                                     !.hint = Len(cacheFile.data)]
                 ELSE [NoRead EXCEPT !.pc = "done", !.path = wallpaper_path]
        /\ UNCHANGED <<cacheDir, cacheFile, wallpaper, last, prevGet, cachedAt,
                       xIn, xOut, call, pairedWith, wr, written,
                    callVars>>

\* line 117, one read(): what the file holds now past the reader's offset,
\* as far as the buffer goes
TornRead ==
    \E cap \in {IF rd.buf = <<>> /\ rd.hint > 0 THEN rd.hint ELSE ProbeTokens} :
    \E upto \in {IF Len(rd.buf) + cap < Len(cacheFile.data)
                 THEN Len(rd.buf) + cap ELSE Len(cacheFile.data)} :
        /\ rd.pc = "reading"
        /\ Len(cacheFile.data) > Len(rd.buf)
        /\ rd' = [rd EXCEPT !.buf = rd.buf \o SubSeq(cacheFile.data, Len(rd.buf) + 1, upto)]
        /\ UNCHANGED <<cacheDir, cacheFile, wallpaper, last, prevGet, cachedAt,
                       xIn, xOut, call, pairedWith, wr, written,
                    callVars>>

\* lines 117-130, read() returns 0: the text read so far is parsed and
\* validated
TornParse ==
    \E cached \in {LoadCache(rd.path, cacheDir, FileWith(rd.buf), wallpaper)} :
        /\ rd.pc = "reading"
        /\ Len(cacheFile.data) <= Len(rd.buf)
        /\ rd' = [rd EXCEPT !.pc = "done", !.hit = (cached # None),
                            !.result = IF cached # None THEN OkSome(cached[1])
                                       ELSE NoResult]
        /\ UNCHANGED <<cacheDir, cacheFile, wallpaper, last, prevGet, cachedAt,
                       xIn, xOut, call, pairedWith, wr, written,
                    callVars>>

\* line 144 in another process: fs::write opens the file with O_TRUNC
TornTruncate ==
    \E cache \in TornEntries :
        /\ wr.pc = "idle"
        /\ cacheFile' = FileWith(<<>>)
        /\ wr' = [pc |-> "writing", json |-> to_string(cache)]
        /\ UNCHANGED <<cacheDir, wallpaper, last, prevGet, cachedAt,
                       xIn, xOut, call, pairedWith, rd, written,
                    callVars>>

\* line 144 in another process: one write() of write_all, which may be short
TornWrite ==
    \E upto \in (Len(cacheFile.data) + 1)..Len(wr.json) :
        /\ wr.pc = "writing"
        /\ cacheFile' = FileWith(SubSeq(wr.json, 1, upto))
        /\ wr' = IF upto = Len(wr.json) THEN NoWrite ELSE wr
        /\ written' = IF upto = Len(wr.json) THEN written \cup {wr.json}
                      ELSE written
        /\ UNCHANGED <<cacheDir, wallpaper, last, prevGet, cachedAt,
                       xIn, xOut, call, pairedWith, rd,
                    callVars>>

NextTorn ==
    \/ TornOpen
    \/ TornRead
    \/ TornParse
    \/ TornTruncate
    \/ TornWrite

SpecTorn == InitTorn /\ [][NextTorn]_vars

-----------------------------------------------------------------------------
(* The sink parser.  Text is a sequence of characters; a Rust byte offset  *)
(* n is the index n + 1 here, and "not found" is 0.                        *)

DigitChars == <<"0", "1", "2", "3", "4", "5", "6", "7", "8", "9">>
UpperChars == <<"A", "B", "C", "D", "E", "F", "G", "H", "I", "J", "K", "L", "M", "N", "O", "P", "Q", "R", "S", "T", "U", "V", "W", "X", "Y", "Z">>
LowerChars == <<"a", "b", "c", "d", "e", "f", "g", "h", "i", "j", "k", "l", "m", "n", "o", "p", "q", "r", "s", "t", "u", "v", "w", "x", "y", "z">>

is_ascii_digit(c) == \E i \in DOMAIN DigitChars : DigitChars[i] = c
DigitValue(c) == (CHOOSE i \in DOMAIN DigitChars : DigitChars[i] = c) - 1
is_whitespace(c) == c \in {" ", "\t", "\n", "\r"}
to_ascii_lowercase(c) ==
    IF \E i \in DOMAIN UpperChars : UpperChars[i] = c
    THEN LowerChars[CHOOSE i \in DOMAIN UpperChars : UpperChars[i] = c]
    ELSE c
AllDigits(s) == \A i \in DOMAIN s : is_ascii_digit(s[i])

SetMin(S) == CHOOSE i \in S : \A j \in S : i <= j
SetMax(S) == CHOOSE i \in S : \A j \in S : i >= j

\* str::find: where the pattern first starts
find(s, pat) ==
    LET hits == {i \in 1..(Len(s) - Len(pat) + 1) :
                    SubSeq(s, i, i + Len(pat) - 1) = pat}
    IN  IF hits = {} THEN 0 ELSE SetMin(hits)

\* str::contains
contains(s, pat) ==
    \E i \in 1..(Len(s) - Len(pat) + 1) : SubSeq(s, i, i + Len(pat) - 1) = pat

\* str::trim
trim(s) ==
    LET keep == {i \in DOMAIN s : ~is_whitespace(s[i])}
    IN  IF keep = {} THEN <<>> ELSE SubSeq(s, SetMin(keep), SetMax(keep))

\* chars().skip_while(|c| !c.is_ascii_digit()).collect()
skip_while_not_digit(s) ==
    LET digits == {i \in DOMAIN s : is_ascii_digit(s[i])}
    IN  IF digits = {} THEN <<>> ELSE SubSeq(s, SetMin(digits), Len(s))

\* the number a digit string denotes
RECURSIVE DecimalValue(_)
DecimalValue(ds) ==
    IF ds = <<>> THEN 0
    ELSE 10 * DecimalValue(SubSeq(ds, 1, Len(ds) - 1)) + DigitValue(ds[Len(ds)])

\* a digit string without its leading zeros
RECURSIVE StripZeros(_)
StripZeros(ds) ==
    IF ds # <<>> /\ Head(ds) = "0" THEN StripZeros(Tail(ds)) ELSE ds

\* u32::MAX, as digits
U32MaxDigits == <<"4", "2", "9", "4", "9", "6", "7", "2", "9", "5">>

\* a <= b for digit strings of one length
DigitsLeq(a, b) ==
    \/ a = b
    \/ \E i \in DOMAIN a :
          /\ DigitValue(a[i]) < DigitValue(b[i])
          /\ \A j \in 1..(i - 1) : a[j] = b[j]

\* str::parse::<u32>: an optional '+', then digits only, within 32 bits
parse_u32(s) ==
    LET ds == IF s # <<>> /\ s[1] = "+" THEN Tail(s) ELSE s
    IN  IF ds = <<>> \/ ~AllDigits(ds) THEN None
        ELSE IF \/ Len(StripZeros(ds)) > Len(U32MaxDigits)
                \/ /\ Len(StripZeros(ds)) = Len(U32MaxDigits)
                   /\ ~DigitsLeq(StripZeros(ds), U32MaxDigits)
             THEN None
        ELSE Some(DecimalValue(StripZeros(ds)))

\* f64 values: m * 10^e with m not a multiple of 10, the infinities, NaN
\* (short decimal texts, for which the nearest f64 tells the values apart)
RECURSIVE Finite(_, _)
Finite(m, e) ==
    IF m = 0 THEN [fp |-> "finite", m |-> 0, e |-> 0]
    ELSE IF m % 10 = 0 THEN Finite(m \div 10, e + 1)
    ELSE [fp |-> "finite", m |-> m, e |-> e]
Infinite(sign) == [fp |-> "inf", m |-> sign, e |-> 0]
NaN == [fp |-> "nan", m |-> 0, e |-> 0]

\* str::parse::<f64>: sign, digits with an optional '.', optional exponent;
\* or inf, infinity, nan in any case
parse_f64(s) ==
    LET sign == IF s # <<>> /\ s[1] = "-" THEN -1 ELSE 1
        body == IF s # <<>> /\ s[1] \in {"+", "-"} THEN Tail(s) ELSE s
        word == [i \in DOMAIN body |-> to_ascii_lowercase(body[i])]
        e_pos == find(word, <<"e">>)
        mant == IF e_pos = 0 THEN body ELSE SubSeq(body, 1, e_pos - 1)
        expo == IF e_pos = 0 THEN <<>> ELSE SubSeq(body, e_pos + 1, Len(body))
        exp_sign == IF expo # <<>> /\ expo[1] = "-" THEN -1 ELSE 1
        exp_digits == IF expo # <<>> /\ expo[1] \in {"+", "-"} THEN Tail(expo)
                      ELSE expo
        dot == find(mant, <<".">>)
        int_digits == IF dot = 0 THEN mant ELSE SubSeq(mant, 1, dot - 1)
        frac_digits == IF dot = 0 THEN <<>> ELSE SubSeq(mant, dot + 1, Len(mant))
    IN  IF word = <<"n", "a", "n">> THEN Some(NaN)
        ELSE IF word \in {<<"i", "n", "f">>, <<"i", "n", "f", "i", "n", "i", "t", "y">>}
             THEN Some(Infinite(sign))
        ELSE IF /\ int_digits \o frac_digits # <<>>
                /\ AllDigits(int_digits \o frac_digits)
                /\ e_pos # 0 => (exp_digits # <<>> /\ AllDigits(exp_digits))
             THEN Some(Finite(sign * DecimalValue(int_digits \o frac_digits),
                              exp_sign * DecimalValue(exp_digits) - Len(frac_digits)))
        ELSE None

VolMarker == <<"[", "v", "o", "l", ":">>

AudioSink(id, name, volume, is_default) ==
    [id |-> id, name |-> name, description |-> <<>>, volume |-> volume,
     is_default |-> is_default]

\* lines 265-298 with the default flag taken from the text before the id only
ParseSinkLineMarkerBeforeId(line) ==
    LET first == {i \in DOMAIN line : is_ascii_digit(line[i])}
        is_default == first # {} /\ contains(SubSeq(line, 1, SetMin(first)), <<"*">>)
        cleaned == skip_while_not_digit(line)
        dot_pos == find(cleaned, <<".">>)
        id == parse_u32(trim(SubSeq(cleaned, 1, dot_pos - 1)))
        rest == trim(SubSeq(cleaned, dot_pos + 1, Len(cleaned)))
        vol_start == find(rest, VolMarker)
        vol_str == SubSeq(rest, vol_start + 5, Len(rest))
        vol_end == IF find(vol_str, <<"]">>) # 0 THEN find(vol_str, <<"]">>)
                   ELSE Len(vol_str) + 1
    IN  IF dot_pos = 0 \/ id = None THEN None
        ELSE IF vol_start # 0
             THEN Some(AudioSink(id[1], trim(SubSeq(rest, 1, vol_start - 1)),
                                 parse_f64(trim(SubSeq(vol_str, 1, vol_end - 1))),
                                 is_default))
        ELSE Some(AudioSink(id[1], rest, None, is_default))

\* lines 265-298 with a line whose volume does not parse skipped
ParseSinkLineStrictVolume(line) ==
    LET is_default == contains(line, <<"*">>)
        cleaned == skip_while_not_digit(line)
        dot_pos == find(cleaned, <<".">>)
        id == parse_u32(trim(SubSeq(cleaned, 1, dot_pos - 1)))
        rest == trim(SubSeq(cleaned, dot_pos + 1, Len(cleaned)))
        vol_start == find(rest, VolMarker)
        vol_str == SubSeq(rest, vol_start + 5, Len(rest))
        vol_end == IF find(vol_str, <<"]">>) # 0 THEN find(vol_str, <<"]">>)
                   ELSE Len(vol_str) + 1
        volume == parse_f64(trim(SubSeq(vol_str, 1, vol_end - 1)))
    IN  IF dot_pos = 0 \/ id = None THEN None
        ELSE IF vol_start # 0
             THEN IF volume = None THEN None
                  ELSE Some(AudioSink(id[1], trim(SubSeq(rest, 1, vol_start - 1)),
                                      volume, is_default))
        ELSE Some(AudioSink(id[1], rest, None, is_default))

\* lines 265-298
parse_sink_line(line) ==
    LET is_default == contains(line, <<"*">>)
        cleaned == skip_while_not_digit(line)
        dot_pos == find(cleaned, <<".">>)
        id == parse_u32(trim(SubSeq(cleaned, 1, dot_pos - 1)))
        rest == trim(SubSeq(cleaned, dot_pos + 1, Len(cleaned)))
        vol_start == find(rest, VolMarker)
        vol_str == SubSeq(rest, vol_start + 5, Len(rest))
        vol_end == IF find(vol_str, <<"]">>) # 0 THEN find(vol_str, <<"]">>)
                   ELSE Len(vol_str) + 1
    IN  IF dot_pos = 0 \/ id = None THEN None
        ELSE IF vol_start # 0
             THEN Some(AudioSink(id[1], trim(SubSeq(rest, 1, vol_start - 1)),
                                 parse_f64(trim(SubSeq(vol_str, 1, vol_end - 1))),
                                 is_default))
        ELSE Some(AudioSink(id[1], rest, None, is_default))

\* str::lines: split at '\n', a '\r' before it dropped, no empty last line
RECURSIVE lines(_)
lines(text) ==
    IF text = <<>> THEN <<>>
    ELSE LET nl == find(text, <<"\n">>)
             raw == IF nl = 0 THEN text ELSE SubSeq(text, 1, nl - 1)
             line == IF raw # <<>> /\ raw[Len(raw)] = "\r"
                     THEN SubSeq(raw, 1, Len(raw) - 1) ELSE raw
         IN  <<line>> \o (IF nl = 0 THEN <<>>
                          ELSE lines(SubSeq(text, nl + 1, Len(text))))

SinksToken == <<"S", "i", "n", "k", "s", ":">>
SourcesToken == <<"S", "o", "u", "r", "c", "e", "s", ":">>
StreamsToken == <<"S", "t", "r", "e", "a", "m", "s", ":">>
FiltersToken == <<"F", "i", "l", "t", "e", "r", "s", ":">>

\* lines 321-334 with new records put in front
RECURSIVE ScanLinesPrepend(_, _, _)
ScanLinesPrepend(rest_lines, in_sinks, sinks) ==
    IF rest_lines = <<>> THEN sinks
    ELSE IF contains(Head(rest_lines), SinksToken)
         THEN ScanLinesPrepend(Tail(rest_lines), TRUE, sinks)
    ELSE IF in_sinks /\ (\/ contains(Head(rest_lines), SourcesToken)
                         \/ contains(Head(rest_lines), StreamsToken)
                         \/ contains(Head(rest_lines), FiltersToken))
         THEN sinks
    ELSE IF in_sinks /\ parse_sink_line(Head(rest_lines)) # None
         THEN ScanLinesPrepend(Tail(rest_lines), in_sinks,
                        <<parse_sink_line(Head(rest_lines))[1]>> \o sinks)
    ELSE ScanLinesPrepend(Tail(rest_lines), in_sinks, sinks)

\* lines 321-334 with the scan given up at a line that does not parse
RECURSIVE ScanLinesAbort(_, _, _)
ScanLinesAbort(rest_lines, in_sinks, sinks) ==
    IF rest_lines = <<>> THEN sinks
    ELSE IF contains(Head(rest_lines), SinksToken)
         THEN ScanLinesAbort(Tail(rest_lines), TRUE, sinks)
    ELSE IF in_sinks /\ (\/ contains(Head(rest_lines), SourcesToken)
                         \/ contains(Head(rest_lines), StreamsToken)
                         \/ contains(Head(rest_lines), FiltersToken))
         THEN sinks
    ELSE IF in_sinks /\ parse_sink_line(Head(rest_lines)) # None
         THEN ScanLinesAbort(Tail(rest_lines), in_sinks,
                        Append(sinks, parse_sink_line(Head(rest_lines))[1]))
    ELSE IF in_sinks THEN sinks
    ELSE ScanLinesAbort(Tail(rest_lines), in_sinks, sinks)

\* lines 321-334 without the test for the end of the section
RECURSIVE ScanLinesNoBreak(_, _, _)
ScanLinesNoBreak(rest_lines, in_sinks, sinks) ==
    IF rest_lines = <<>> THEN sinks
    ELSE IF contains(Head(rest_lines), SinksToken)
         THEN ScanLinesNoBreak(Tail(rest_lines), TRUE, sinks)
    ELSE IF in_sinks /\ parse_sink_line(Head(rest_lines)) # None
         THEN ScanLinesNoBreak(Tail(rest_lines), in_sinks,
                        Append(sinks, parse_sink_line(Head(rest_lines))[1]))
    ELSE ScanLinesNoBreak(Tail(rest_lines), in_sinks, sinks)

\* lines 321-334, the loop over the lines still to scan
RECURSIVE ScanLines(_, _, _)
ScanLines(rest_lines, in_sinks, sinks) ==
    IF rest_lines = <<>> THEN sinks
    ELSE IF contains(Head(rest_lines), SinksToken)
         THEN ScanLines(Tail(rest_lines), TRUE, sinks)
    ELSE IF in_sinks /\ (\/ contains(Head(rest_lines), SourcesToken)
                         \/ contains(Head(rest_lines), StreamsToken)
                         \/ contains(Head(rest_lines), FiltersToken))
         THEN sinks
    ELSE IF in_sinks /\ parse_sink_line(Head(rest_lines)) # None
         THEN ScanLines(Tail(rest_lines), in_sinks,
                        Append(sinks, parse_sink_line(Head(rest_lines))[1]))
    ELSE ScanLines(Tail(rest_lines), in_sinks, sinks)

\* what wpctl did: whether it ran, its exit status, its standard output
Wpctl(spawned, success, stdout) ==
    [spawned |-> spawned, success |-> success, stdout |-> stdout]

\* lines 303-337
get_audio_sinks(tool) ==
    IF ~tool.spawned THEN [kind |-> "Err(PyOSError)", sinks |-> <<>>]
    ELSE IF ~tool.success THEN [kind |-> "Err(PyRuntimeError)", sinks |-> <<>>]
    ELSE [kind |-> "Ok", sinks |-> ScanLines(lines(tool.stdout), FALSE, <<>>)]

-----------------------------------------------------------------------------
(* parse_sink_line on lines put together from a lead, an id text, a dot,   *)
(* a name and a volume part; each part says what it stands for.            *)

LineLeads ==
    { [text |-> <<" ">>, star |-> FALSE],
      [text |-> <<" ", "|", " ">>, star |-> FALSE],
      [text |-> <<" ", "|", " ", "*", " ">>, star |-> TRUE] }

LineIds ==
    { [text |-> <<>>, id |-> None],
      [text |-> <<"2">>, id |-> Some(2)],
      [text |-> <<"3", "4">>, id |-> Some(34)],
      [text |-> <<"0", "0", "7">>, id |-> Some(7)],
      [text |-> <<"8", " ">>, id |-> Some(8)],
      [text |-> <<"3", "x">>, id |-> None],
      [text |-> <<"3", " ", "4">>, id |-> None],
      [text |-> <<"4", "2", "9", "4", "9", "6", "7", "2", "9", "6">>, id |-> None] }

LineNames ==
    { [text |-> <<>>, name |-> <<>>, star |-> FALSE],
      [text |-> <<" ", "H", "s">>, name |-> <<"H", "s">>, star |-> FALSE],
      [text |-> <<" ", "H", "*", "s", " ">>, name |-> <<"H", "*", "s">>, star |-> TRUE],
      [text |-> <<" ", "U", " ", "2", ".", "0", " ">>, name |-> <<"U", " ", "2", ".", "0">>, star |-> FALSE],
      [text |-> <<"\t", "A", ".", "b">>, name |-> <<"A", ".", "b">>, star |-> FALSE] }

LineVols ==
    { [text |-> <<>>, marker |-> FALSE, volume |-> None, star |-> FALSE],
      [text |-> <<"[", "v", "o", "l", ":", " ", "0", ".", "6", "0", "]">>, marker |-> TRUE,
       volume |-> Some([fp |-> "finite", m |-> 6, e |-> -1]), star |-> FALSE],
      [text |-> <<"[", "v", "o", "l", ":", " ", "0", ".", "6">>, marker |-> TRUE,
       volume |-> Some([fp |-> "finite", m |-> 6, e |-> -1]), star |-> FALSE],
      [text |-> <<"[", "v", "o", "l", ":", " ", ".", "5", "]", "x", "]">>, marker |-> TRUE,
       volume |-> Some([fp |-> "finite", m |-> 5, e |-> -1]), star |-> FALSE],
      [text |-> <<"[", "v", "o", "l", ":", " ", "1", "e", "1", "]", " ", "*">>, marker |-> TRUE,
       volume |-> Some([fp |-> "finite", m |-> 1, e |-> 1]), star |-> TRUE],
      [text |-> <<"[", "v", "o", "l", ":", " ", "N", "a", "N", "]">>, marker |-> TRUE,
       volume |-> Some([fp |-> "nan", m |-> 0, e |-> 0]), star |-> FALSE],
      [text |-> <<"[", "v", "o", "l", ":", " ", "x", "]">>, marker |-> TRUE, volume |-> None, star |-> FALSE],
      [text |-> <<"[", "v", "o", "l", ":", "]">>, marker |-> TRUE, volume |-> None, star |-> FALSE] }

LineText(l) ==
    l.lead.text \o l.id.text \o (IF l.dot THEN <<".">> ELSE <<>>)
        \o l.name.text \o l.vol.text

LineInputs ==
    [lead : LineLeads, id : LineIds, dot : BOOLEAN, name : LineNames,
     vol : LineVols]

InitLine ==
    /\ cacheDir = TRUE
    /\ cacheFile = NoFile
    /\ wallpaper = [f \in Files |-> None]
    /\ last = EnvStep("init")
    /\ prevGet = NoPrevGet
    /\ cachedAt = None
    /\ xIn = NoTool
    /\ xOut = None
    /\ call = NoCall
    /\ pairedWith = None
    /\ rd = NoRead
    /\ wr = NoWrite
    /\ written = {}
    /\ lineIn \in LineInputs
    /\ lineOut = None
    /\ audioIn = None
    /\ audioOut = None
    /\ ipcIn = None
    /\ ipcOut = None

\* parse_sink_line applied to the text of lineIn
ParseSinkLineCall ==
    /\ lineOut = None
    /\ lineOut' = Some(parse_sink_line(LineText(lineIn)))
    /\ UNCHANGED <<cacheDir, cacheFile, wallpaper, last, prevGet, cachedAt,
                   xIn, xOut, call, pairedWith, rd, wr, written,
                   lineIn, audioIn, audioOut, ipcIn, ipcOut>>

NextLine == ParseSinkLineCall

SpecLine == InitLine /\ [][NextLine]_vars

-----------------------------------------------------------------------------
(* get_audio_sinks on reports of a few lines.                              *)

MaxLines == 3

\* a report line: its text; what it is (a sinks header, a line that ends the
\* section, a line with both tokens, a sink line, a line that is no sink, any
\* other line); for a sink line, what it says
ReportLine(tag, text, id, name, volume, marked) ==
    [tag |-> tag, text |-> text, id |-> id, name |-> name,
     volume |-> volume, marked |-> marked]

ReportLines ==
    { ReportLine("other", <<"A", "u", "d", "i", "o">>, 0, <<>>, None, FALSE),
      ReportLine("sinks", <<" ", "S", "i", "n", "k", "s", ":">>, 0, <<>>, None, FALSE),
      ReportLine("sinks", <<" ", "S", "i", "n", "k", "s", ":", " ", "5", ".", " ", "H", "s">>, 0, <<>>, None, FALSE),
      ReportLine("end", <<" ", "S", "o", "u", "r", "c", "e", "s", ":">>, 0, <<>>, None, FALSE),
      ReportLine("end", <<" ", "7", ".", " ", "S", "t", "r", "e", "a", "m", "s", ":">>, 0, <<>>, None, FALSE),
      ReportLine("end", <<" ", "F", "i", "l", "t", "e", "r", "s", ":">>, 0, <<>>, None, FALSE),
      ReportLine("both", <<" ", "S", "i", "n", "k", "s", ":", " ", "9", ".", " ", "S", "o", "u", "r", "c", "e", "s", ":">>, 0, <<>>, None, FALSE),
      ReportLine("sink", <<" ", "|", " ", "*", " ", "3", "4", ".", " ", "H", "s", " ", "[", "v", "o", "l", ":", " ", "0", ".", "6", "0", "]">>, 34, <<"H", "s">>,
                 Some([fp |-> "finite", m |-> 6, e |-> -1]), TRUE),
      ReportLine("sink", <<" ", "|", " ", " ", " ", "2", ".", " ", "S", "p">>, 2, <<"S", "p">>, None, FALSE),
      ReportLine("sink", <<" ", "|", " ", "4", "6", ".", " ", "U", " ", "2", ".", "0", " ", "[", "v", "o", "l", ":", " ", "1", ".", "0", "0", "]">>, 46, <<"U", " ", "2", ".", "0">>,
                 Some([fp |-> "finite", m |-> 1, e |-> 0]), FALSE),
      ReportLine("nosink", <<" ", "|", " ", "x">>, 0, <<>>, None, FALSE),
      ReportLine("nosink", <<" ", "|", " ", "3", "4", " ", "H", "s">>, 0, <<>>, None, FALSE),
      ReportLine("nosink", <<" ", "|", " ", "3", "x", ".", " ", "H", "s">>, 0, <<>>, None, FALSE),
      ReportLine("nosink", <<" ", "4", "2", "9", "4", "9", "6", "7", "2", "9", "6", ".", " ", "B">>, 0, <<>>, None, FALSE) }

Reports == UNION {[1..n -> ReportLines] : n \in 0..MaxLines}

\* the standard output that holds the report, every line ended by eol
RECURSIVE ReportText(_, _)
ReportText(report, eol) ==
    IF report = <<>> THEN <<>>
    ELSE Head(report).text \o eol \o ReportText(Tail(report), eol)

\* wpctl fails to start, or exits with a failure, or prints a report
AudioInputs ==
    {[spawned |-> FALSE, success |-> FALSE, report |-> <<>>, eol |-> <<"\n">>],
     [spawned |-> TRUE, success |-> FALSE, report |-> <<>>, eol |-> <<"\n">>]}
    \cup [spawned : {TRUE}, success : {TRUE}, report : Reports,
          eol : {<<"\n">>, <<"\r", "\n">>}]

NoSinks == [kind |-> "-", sinks |-> <<>>]

InitSinks ==
    /\ cacheDir = TRUE
    /\ cacheFile = NoFile
    /\ wallpaper = [f \in Files |-> None]
    /\ last = EnvStep("init")
    /\ prevGet = NoPrevGet
    /\ cachedAt = None
    /\ xIn = NoTool
    /\ xOut = None
    /\ call = NoCall
    /\ pairedWith = None
    /\ rd = NoRead
    /\ wr = NoWrite
    /\ written = {}
    /\ lineIn = None
    /\ lineOut = None
    /\ audioIn \in AudioInputs
    /\ audioOut = NoSinks
    /\ ipcIn = None
    /\ ipcOut = None

\* get_audio_sinks run against the wpctl of audioIn
GetAudioSinksCall ==
    /\ audioOut = NoSinks
    /\ audioOut' = get_audio_sinks(Wpctl(audioIn.spawned, audioIn.success,
                                         ReportText(audioIn.report, audioIn.eol)))
    /\ UNCHANGED <<cacheDir, cacheFile, wallpaper, last, prevGet, cachedAt,
                   xIn, xOut, call, pairedWith, rd, wr, written,
                   lineIn, lineOut, audioIn, ipcIn, ipcOut>>

NextSinks == GetAudioSinksCall

SpecSinks == InitSinks /\ [][NextSinks]_vars

-----------------------------------------------------------------------------
(* hyprctl: the environment, the socket files and the daemon are inputs.   *)

\* an environment variable: unset, set to bytes that are not Unicode, or set
EnvVar(st, val) == [st |-> st, val |-> val]

\* std::env::var: Err unless the variable is set to Unicode text
env_var(v) == IF v.st = "set" THEN Some(v.val) ELSE None

\* lines 55 and 59/62: the two socket paths, as the pieces format! joins
XdgSocket(xdg, his) == <<xdg, "/hypr/", his, "/.socket.sock">>
TmpSocket(his) == <<"/tmp", "/hypr/", his, "/.socket.sock">>

IpcResult(kind, response, connects) ==
    [kind |-> kind, response |-> response, connects |-> connects]
NoIpc == IpcResult("-", <<>>, <<>>)

\* lines 48-82 with the runtime-directory socket taken whenever
\* XDG_RUNTIME_DIR is set
hyprctlNoExistsCheck(command, env, sockets, io) ==
    LET his == env_var(env.his)
        xdg == env_var(env.xdg)
        socket_path == IF xdg # None THEN XdgSocket(xdg[1], his[1])
                       ELSE TmpSocket(his[1])
    IN  IF his = None
        THEN IpcResult("Err(PyRuntimeError)", <<>>, <<>>)
        ELSE IF socket_path \notin sockets.listening
             THEN IpcResult("Err(PyConnectionError)", <<>>, <<socket_path>>)
        ELSE IF io # "ok"
             THEN IpcResult("Err(PyIOError)", <<>>, <<socket_path>>)
        ELSE IpcResult("Ok", <<socket_path, command>>, <<socket_path>>)

\* lines 48-82; connects lists the paths UnixStream::connect was called
\* with, and the daemon's response names the socket and the bytes it got
hyprctl(command, env, sockets, io) ==
    LET his == env_var(env.his)
        xdg == env_var(env.xdg)
        socket_path == IF xdg # None
                       THEN IF XdgSocket(xdg[1], his[1]) \in sockets.exists
                            THEN XdgSocket(xdg[1], his[1])
                            ELSE TmpSocket(his[1])
                       ELSE TmpSocket(his[1])
    IN  IF his = None
        THEN IpcResult("Err(PyRuntimeError)", <<>>, <<>>)
        ELSE IF socket_path \notin sockets.listening
             THEN IpcResult("Err(PyConnectionError)", <<>>, <<socket_path>>)
        ELSE IF io # "ok"
             THEN IpcResult("Err(PyIOError)", <<>>, <<socket_path>>)
        ELSE IpcResult("Ok", <<socket_path, command>>, <<socket_path>>)

\* lines 86-88
hyprctl_json(command, env, sockets, io) ==
    hyprctl(<<"j/">> \o command, env, sockets, io)

\* the socket files of the instance "sigA" that may be there
SocketFiles == {XdgSocket("/run/user/1000", "sigA"), TmpSocket("sigA")}

IpcInputs ==
    { i \in [fn : {"hyprctl", "hyprctl_json"},
             command : {<<"monitors">>},
             his : {EnvVar("unset", ""), EnvVar("not_unicode", ""),
                    EnvVar("set", "sigA")},
             xdg : {EnvVar("unset", ""), EnvVar("not_unicode", ""),
                    EnvVar("set", "/run/user/1000"), EnvVar("set", "/tmp")},
             exists : SUBSET SocketFiles,
             listening : SUBSET SocketFiles,
             io : {"ok", "write_fails", "read_fails"}] :
        i.listening \subseteq i.exists }

InitIpc ==
    /\ cacheDir = TRUE
    /\ cacheFile = NoFile
    /\ wallpaper = [f \in Files |-> None]
    /\ last = EnvStep("init")
    /\ prevGet = NoPrevGet
    /\ cachedAt = None
    /\ xIn = NoTool
    /\ xOut = None
    /\ call = NoCall
    /\ pairedWith = None
    /\ rd = NoRead
    /\ wr = NoWrite
    /\ written = {}
    /\ lineIn = None
    /\ lineOut = None
    /\ audioIn = None
    /\ audioOut = None
    /\ ipcIn \in IpcInputs
    /\ ipcOut = NoIpc

\* hyprctl called in the world of ipcIn
HyprctlCall ==
    /\ ipcOut = NoIpc
    /\ ipcIn.fn = "hyprctl"
    /\ ipcOut' = hyprctl(ipcIn.command, [his |-> ipcIn.his, xdg |-> ipcIn.xdg],
                         [exists |-> ipcIn.exists, listening |-> ipcIn.listening],
                         ipcIn.io)
    /\ UNCHANGED <<cacheDir, cacheFile, wallpaper, last, prevGet, cachedAt,
                   xIn, xOut, call, pairedWith, rd, wr, written,
                   lineIn, lineOut, audioIn, audioOut, ipcIn>>

\* hyprctl_json called in the world of ipcIn
HyprctlJsonCall ==
    /\ ipcOut = NoIpc
    /\ ipcIn.fn = "hyprctl_json"
    /\ ipcOut' = hyprctl_json(ipcIn.command, [his |-> ipcIn.his, xdg |-> ipcIn.xdg],
                              [exists |-> ipcIn.exists, listening |-> ipcIn.listening],
                              ipcIn.io)
    /\ UNCHANGED <<cacheDir, cacheFile, wallpaper, last, prevGet, cachedAt,
                   xIn, xOut, call, pairedWith, rd, wr, written,
                   lineIn, lineOut, audioIn, audioOut, ipcIn>>

NextIpc ==
    \/ HyprctlCall
    \/ HyprctlJsonCall

SpecIpc == InitIpc /\ [][NextIpc]_vars

-----------------------------------------------------------------------------
(* Properties *)

\* The cache file as save_cache writes it, read without the parser
FileIsEntry ==
    /\ cacheDir
    /\ cacheFile.st = "file"
    /\ Len(cacheFile.data) = 5
    /\ [i \in 1..5 |-> cacheFile.data[i].k]
         = <<"{", "wallpaper_path", "wallpaper_mtime", "colors", "}">>
StoredPath == cacheFile.data[2].s
StoredMtime == cacheFile.data[3].n
StoredColors == cacheFile.data[4].c

\* C1 as stated: two get_cached_colors calls with the same path and the same
\* (readable) whole-second mtime, nothing else touching the cache in between, invoke
\* the external tool at most once.
C1_AtMostOneInvocation ==
    [][(/\ last'.op = "get"
        /\ prevGet.valid
        /\ prevGet.mtime # None
        /\ prevGet.path = last'.path
        /\ prevGet.mtime = get_mtime(last'.path, wallpaper))
       => ~(prevGet.invoked /\ last'.invoked)]_vars

\* C1 amended: under the same conditions, when the first call hit or
\* persisted what it extracted, the second call is a pure cache hit.
C1_SecondCallHits ==
    [][(/\ last'.op = "get"
        /\ prevGet.valid
        /\ prevGet.mtime # None
        /\ prevGet.path = last'.path
        /\ prevGet.mtime = get_mtime(last'.path, wallpaper)
        /\ prevGet.kept)
       => (last'.hit /\ ~last'.invoked)]_vars

C1_Witness ==
    /\ last.op = "get"
    /\ last.after = "after_saved"
    /\ last.hit
    /\ ~last.invoked

\* C2: with a cache file that deserializes, the call is a hit iff the stored
\* path is the requested one and the stored mtime is the wallpaper's current
\* mtime in whole seconds; a hit returns the stored mapping and does not run
\* the tool.
C2_HitIffPathAndMtime ==
    [][(last'.op = "get" /\ FileIsEntry)
       => LET m == wallpaper[FileOf(last'.path)]
              valid == /\ StoredPath = last'.path
                       /\ m # None
                       /\ StoredMtime = (IF m = None THEN -1 ELSE m[1].sec)
          IN  /\ last'.hit <=> valid
              /\ last'.hit => (last'.result = OkSome(StoredColors) /\ ~last'.invoked)]_vars

C2_Witness ==
    /\ last.op = "get"
    /\ last.cache = "valid"
    /\ last.hit
    /\ ~last.invoked
    /\ last.result.kind = "Ok(Some)"
    /\ last.result.colors # EmptyMap

\* C3 as stated: once the wallpaper's mtime differs from what it was when
\* the entry for that path was persisted, the next call for the path misses
\* and runs the tool.
C3_AnyMtimeChangeMisses ==
    [][(/\ last'.op = "get"
        /\ FileIsEntry
        /\ StoredPath = last'.path
        /\ cachedAt # None
        /\ wallpaper[FileOf(last'.path)] # cachedAt)
       => (~last'.hit /\ last'.invoked)]_vars

\* C3 amended: once the wallpaper's mtime in whole seconds differs from what
\* it was when the entry for that path was persisted (or the wallpaper's
\* mtime cannot be read), the next call for the path misses and runs the tool.
C3_WholeSecondChangeMisses ==
    [][(/\ last'.op = "get"
        /\ FileIsEntry
        /\ StoredPath = last'.path
        /\ cachedAt # None
        /\ LET m == wallpaper[FileOf(last'.path)]
           IN  IF m = None THEN TRUE ELSE m[1].sec # cachedAt[1].sec)
       => (~last'.hit /\ last'.invoked)]_vars

C3_Witness ==
    /\ last.op = "get"
    /\ last.cache = "stale_mtime"
    /\ ~last.hit
    /\ last.invoked

\* C4: a call whose path differs from the stored path misses and runs the
\* tool, whatever the mtimes are.
C4_OtherPathMisses ==
    [][(last'.op = "get" /\ FileIsEntry /\ StoredPath # last'.path)
       => (~last'.hit /\ last'.invoked)]_vars

\* the call took the other path's entry for a miss although the requested
\* wallpaper has the stored mtime (the failed extraction left the file alone)
C4_Witness ==
    /\ last.op = "get"
    /\ last.cache = "other_path"
    /\ ~last.hit
    /\ last.invoked
    /\ ~last.extracted
    /\ FileIsEntry
    /\ StoredPath # last.path
    /\ wallpaper[FileOf(last.path)] # None
    /\ Some(StoredMtime) = get_mtime(last.path, wallpaper)

\* C5: invalidate_color_cache immediately followed by get_cached_colors is a
\* miss that runs the tool.
C5_InvalidateThenMiss ==
    [][(last.op = "invalidate" /\ last'.op = "get")
       => (~last'.hit /\ last'.invoked)]_vars

\* C6: a cache file that is missing or does not deserialize into a full
\* entry makes the call a miss that goes on to extraction and returns Ok.
C6_MalformedIsMiss ==
    [][(last'.op = "get" /\ ~FileIsEntry)
       => /\ ~last'.hit
          /\ last'.invoked
          /\ last'.result.kind \in {"Ok(None)", "Ok(Some)"}]_vars

C6_Witness ==
    /\ last.op = "get"
    /\ last.cache = "malformed"
    /\ ~last.hit
    /\ last.invoked
    /\ last.result.kind = "Ok(Some)"

\* C7: on a miss, a tool that cannot be spawned, exits nonzero or prints
\* something that is not JSON makes the call return Ok(None).
C7_ToolFailureIsNone ==
    (/\ last.op = "get"
     /\ last.invoked
     /\ \/ ~last.tool.spawned
        \/ ~last.tool.success
        \/ ~last.tool.stdout.wellformed)
    => last.result = OkNone

C7_Witness ==
    /\ last.op = "get"
    /\ last.invoked
    /\ last.tool.spawned
    /\ ~last.tool.success
    /\ last.tool.stdout.wellformed
    /\ last.result = OkNone

\* C8: on a miss with a successful extraction, a failure to persist leaves
\* the returned value the extracted mapping.
C8_PersistFailureNonFatal ==
    (last.op = "get" /\ last.extracted /\ ~last.saved)
    => last.result = OkSome(RunMatugen(last.path, last.tool)[1])

C8_Witness ==
    /\ last.op = "get"
    /\ last.extracted
    /\ ~last.saved
    /\ cacheDir
    /\ wallpaper[FileOf(last.path)] # None
    /\ cacheFile.st = "file"
    /\ ~FileIsEntry
    /\ last.result.kind = "Ok(Some)"
    /\ last.result.colors # EmptyMap

\* C9: invalidate_color_cache returns Ok(()) in every case; a present file
\* is either removed or, when the removal fails, left as it was; without a
\* file nothing changes.
C9_InvalidateAlwaysOk ==
    [][(last'.op = "invalidate")
       => /\ last'.result = OkUnit
          /\ cacheFile.st # "file" => (cacheFile' = cacheFile /\ ~last'.removed)
          /\ cacheFile.st = "file" =>
                IF last'.removed THEN cacheFile'.st = "nofile"
                ELSE cacheFile' = cacheFile]_vars

\* a deletion error was swallowed: the file is still there, the call said Ok
C9_Witness ==
    /\ last.op = "invalidate"
    /\ last.cache = "file"
    /\ ~last.removed
    /\ cacheFile.st = "file"
    /\ last.result = OkUnit

\* C10: every entry of the tool's colors object maps to its dark string,
\* else its default string, else itself when it is a string, else is left
\* out; the mapping has no other keys.
C10_ExtractedMapping ==
    (/\ xOut # None
     /\ xIn.spawned /\ xIn.success /\ xIn.stdout.wellformed
     /\ xIn.stdout.json.t = "object"
     /\ "colors" \in DOMAIN xIn.stdout.json.f
     /\ xIn.stdout.json.f["colors"].t = "object")
    => LET obj == xIn.stdout.json.f["colors"].f
           HasStr(val, name) ==
               /\ val.t = "object"
               /\ name \in DOMAIN val.f
               /\ val.f[name].t = "string"
       IN  /\ xOut[1] # None
           /\ DOMAIN xOut[1][1] \subseteq DOMAIN obj
           /\ \A key \in DOMAIN obj :
                 LET val == obj[key]
                     map == xOut[1][1]
                 IN  IF HasStr(val, "dark")
                         THEN key \in DOMAIN map /\ map[key] = val.f["dark"].s
                     ELSE IF HasStr(val, "default")
                         THEN key \in DOMAIN map /\ map[key] = val.f["default"].s
                     ELSE IF val.t = "string"
                         THEN key \in DOMAIN map /\ map[key] = val.s
                     ELSE key \notin DOMAIN map

\* dark preferred over default for one key, the other key skipped
C10_Witness ==
    /\ xOut # None
    /\ xIn.spawned /\ xIn.success /\ xIn.stdout.wellformed
    /\ xIn.stdout.json = Report(JObj([k \in Keys |->
           IF k = "primary" THEN Variant("#112233", "#000000") ELSE JNum]))
    /\ xOut[1] = Some([k \in {"primary"} |-> "#112233"])

\* C14: after a call that missed, extracted and persisted, the cache file
\* is exactly one entry: the requested path, the wallpaper's current mtime
\* in whole seconds and the extracted mapping; nothing of the old content
\* is left.
C14_SavedEntryReplacesFile ==
    (last.op = "get" /\ last.saved)
    => /\ FileIsEntry
       /\ cacheFile.data[1] = Open
       /\ cacheFile.data[5] = Close
       /\ StoredPath = last.path
       /\ wallpaper[FileOf(last.path)] # None
       /\ StoredMtime = wallpaper[FileOf(last.path)][1].sec
       /\ StoredColors = RunMatugen(last.path, last.tool)[1]
       /\ last.result = OkSome(StoredColors)

\* an entry for another path was in the file before the call
C14_Witness ==
    /\ last.op = "get"
    /\ last.saved
    /\ last.cache = "other_path"
    /\ FileIsEntry
    /\ StoredPath = last.path
    /\ StoredColors # EmptyMap

\* C19: get_cached_colors changes the cache file only in a call that missed
\* and extracted; a hit and a failed extraction leave it as it was, and no
\* call removes an existing file.
C19_FileChangesOnlyOnExtraction ==
    [][(last'.op = "get")
       => /\ cacheFile' # cacheFile => (~last'.hit /\ last'.extracted)
          /\ (last'.hit \/ ~last'.extracted) => cacheFile' = cacheFile
          /\ cacheFile.st = "file" => cacheFile'.st = "file"]_vars

\* a failed extraction over a stale entry: the entry is still there
C19_Witness ==
    /\ last.op = "get"
    /\ last.cache = "stale_mtime"
    /\ last.invoked
    /\ ~last.extracted
    /\ last.result = OkNone
    /\ FileIsEntry
    /\ StoredPath = last.path

\* C20: the entry save_cache persists carries the whole-second mtime the
\* wallpaper had when the tool extracted the colours, also when the
\* wallpaper was rewritten while the tool ran; so the colours of a later hit
\* are those of the wallpaper version whose mtime is stored.
C20_EntryPairsExtractionMtime ==
    (pairedWith # None /\ pairedWith # Some(None))
    => /\ FileIsEntry
       /\ StoredMtime = pairedWith[1][1].sec

\* what a report line is, for the claims about the scan
HeaderTags == {"sinks", "both"}

\* the first line after the given one whose tag is among the given ones
\* (one past the end when there is none)
FirstTagged(report, tags, after) ==
    LET hits == {i \in (after + 1)..Len(report) : report[i].tag \in tags}
    IN  IF hits = {} THEN Len(report) + 1 ELSE SetMin(hits)

\* the lines between the first sinks header and the first later line tagged
\* as an end, headers left out
SectionLines(report, endTags) ==
    LET h == FirstTagged(report, HeaderTags, 0)
        t == FirstTagged(report, endTags, h)
        IsNoHeader(l) == l.tag \notin HeaderTags
    IN  SelectSeq(SubSeq(report, h + 1, t - 1), IsNoHeader)

\* the record a sink line stands for
ExpectedSink(l) ==
    [id |-> l.id, name |-> l.name, description |-> <<>>,
     volume |-> l.volume, is_default |-> l.marked]

\* the records the sink lines among the given lines stand for, in order
ExpectedSinks(ls) ==
    LET IsSink(l) == l.tag = "sink"
        keep == SelectSeq(ls, IsSink)
    IN  [k \in DOMAIN keep |-> ExpectedSink(keep[k])]

\* the three ways of C12 in which a line is not a sink line
HasNoDigit(text) == \A i \in DOMAIN text : text[i] \notin {"0", "1", "2", "3", "4", "5", "6", "7", "8", "9"}
FirstDigitAt(text) ==
    SetMin({i \in DOMAIN text : ~HasNoDigit(<<text[i]>>)})
HasNoDotAfterDigit(text) ==
    /\ ~HasNoDigit(text)
    /\ \A j \in FirstDigitAt(text)..Len(text) : text[j] # "."
IdTextOf(text) ==
    SubSeq(text, FirstDigitAt(text),
           SetMin({j \in FirstDigitAt(text)..Len(text) : text[j] = "."}) - 1)
IsIntegerId(t) ==
    LET numeral == StripZeros(trim(t))
    IN  /\ trim(t) # <<>>
        /\ \A i \in DOMAIN trim(t) : ~HasNoDigit(<<trim(t)[i]>>)
        /\ \/ Len(numeral) < Len(U32MaxDigits)
           \/ Len(numeral) = Len(U32MaxDigits) /\ DigitsLeq(numeral, U32MaxDigits)
IsNoSinkLine(text) ==
    \/ HasNoDigit(text)
    \/ HasNoDotAfterDigit(text)
    \/ ~HasNoDigit(text) /\ ~HasNoDotAfterDigit(text) /\ ~IsIntegerId(IdTextOf(text))

\* C11: when every line of the sink section is a well-formed sink line, the
\* call returns one record per line, in the order of the lines, each with the
\* line's id, its trimmed name, is_default as the line is marked, the volume
\* the line gives (none when it gives none) and an empty description.
C11_WellFormedSection ==
    LET section == SectionLines(audioIn.report, {"end"})
    IN  (/\ audioOut.kind = "Ok"
         /\ \A i \in DOMAIN section : section[i].tag = "sink")
        => /\ Len(audioOut.sinks) = Len(section)
           /\ \A k \in DOMAIN section :
                 /\ audioOut.sinks[k].id = section[k].id
                 /\ audioOut.sinks[k].name = section[k].name
                 /\ audioOut.sinks[k].is_default = section[k].marked
                 /\ audioOut.sinks[k].volume = section[k].volume
                 /\ audioOut.sinks[k].description = <<>>

C11_Witness ==
    /\ audioOut.kind = "Ok"
    /\ Len(audioIn.report) = 3
    /\ audioIn.report[1].tag = "sinks"
    /\ audioIn.report[2].tag = "sink" /\ audioIn.report[2].marked
    /\ audioIn.report[2].volume # None
    /\ audioIn.report[3].tag = "sink" /\ ~audioIn.report[3].marked
    /\ audioIn.report[3].volume = None
    /\ Len(audioOut.sinks) = 2
    /\ audioOut.sinks[1].id = 34 /\ audioOut.sinks[2].id = 2

\* C12: in the sink section a line without a digit, a line without a '.'
\* after its first digit, and a line whose text between the first digit and
\* the next '.' is no integer id give no record and do not end the scan: the
\* records returned are those of the other lines of the section, all of them.
C12_MalformedLinesSkipped ==
    LET section == SectionLines(audioIn.report, {"end"})
        IsValid(l) == ~IsNoSinkLine(l.text)
        valid == SelectSeq(section, IsValid)
    IN  audioOut.kind = "Ok"
        => /\ Len(audioOut.sinks) = Len(valid)
           /\ \A k \in DOMAIN valid :
                 /\ valid[k].tag = "sink"
                 /\ audioOut.sinks[k] = ExpectedSink(valid[k])

C12_Witness ==
    /\ audioOut.kind = "Ok"
    /\ Len(audioIn.report) = 3
    /\ audioIn.report[1].tag = "sinks"
    /\ audioIn.report[2].tag = "nosink"
    /\ HasNoDotAfterDigit(audioIn.report[2].text)
    /\ audioIn.report[3].tag = "sink"
    /\ audioOut.sinks = <<ExpectedSink(audioIn.report[3])>>

\* C13: without HYPRLAND_INSTANCE_SIGNATURE hyprctl fails with the
\* configuration error and connects to nothing; with it, the socket it uses is
\* the one under XDG_RUNTIME_DIR when that file exists and the one under /tmp
\* otherwise, and it fails with a connection error when neither of the two
\* sockets accepts a connection.
C13_SocketResolution ==
    LET runtime == <<ipcIn.xdg.val, "/hypr/", ipcIn.his.val, "/.socket.sock">>
        legacy == <<"/tmp", "/hypr/", ipcIn.his.val, "/.socket.sock">>
        candidates == IF ipcIn.xdg.st = "set" THEN {runtime, legacy} ELSE {legacy}
    IN  ipcOut # NoIpc
        => /\ ipcIn.his.st = "unset"
              => (ipcOut.kind = "Err(PyRuntimeError)" /\ ipcOut.connects = <<>>)
           /\ ipcIn.his.st = "set"
              => /\ ipcOut.connects =
                       IF ipcIn.xdg.st = "set" /\ runtime \in ipcIn.exists
                       THEN <<runtime>> ELSE <<legacy>>
                 /\ candidates \cap ipcIn.listening = {}
                    => ipcOut.kind = "Err(PyConnectionError)"

C13_Witness ==
    /\ ipcOut.kind = "Ok"
    /\ ipcIn.xdg = EnvVar("set", "/run/user/1000")
    /\ XdgSocket("/run/user/1000", "sigA") \notin ipcIn.exists
    /\ ipcOut.connects = <<TmpSocket("sigA")>>

\* C15 as stated: no record comes from a line before the first line with the
\* sinks token or from that line, and the scan ends at the first later line
\* with a sources, streams or filters token, whatever else that line holds.
C15_ScanEndsAtAnyTerminator ==
    audioOut.kind = "Ok"
    => audioOut.sinks = ExpectedSinks(SectionLines(audioIn.report, {"end", "both"}))

\* C15: no record comes from a line before the first line with the sinks
\* token or from a line with the sinks token, and the scan ends at the first
\* line after the header that has a sources, streams or filters token and no
\* sinks token: no line at or after it gives a record.
C15_ScanEndsAtTerminator ==
    audioOut.kind = "Ok"
    => audioOut.sinks = ExpectedSinks(SectionLines(audioIn.report, {"end"}))

C15_Witness ==
    /\ audioOut.kind = "Ok"
    /\ Len(audioIn.report) = 3
    /\ audioIn.report[1].tag = "sinks"
    /\ audioIn.report[2].tag = "end"
    /\ audioIn.report[3].tag = "sink"
    /\ audioOut.sinks = <<>>

\* C16: for a line with a valid id, when the rest holds "[vol:" the name is
\* the trimmed text before it and the volume is the number between it and
\* the next ']', or none when that text is no number, the record being
\* produced all the same; without "[vol:" the name is the whole trimmed rest
\* and there is no volume.
C16_VolumeSplit ==
    (lineOut # None /\ lineIn.dot /\ lineIn.id.id # None)
    => /\ lineOut[1] # None
       /\ lineOut[1][1].id = lineIn.id.id[1]
       /\ lineOut[1][1].name = lineIn.name.name
       /\ lineOut[1][1].volume = IF lineIn.vol.marker THEN lineIn.vol.volume
                                 ELSE None

C16_Witness ==
    /\ lineOut # None /\ lineOut[1] # None
    /\ lineIn.dot /\ lineIn.id.id # None
    /\ lineIn.vol.text = <<"[", "v", "o", "l", ":", " ", "x", "]">>
    /\ lineIn.name.name # <<>>
    /\ lineOut[1][1].volume = None

\* C17: a record has is_default set exactly when its line holds a '*', be it
\* before the id, in the name or after it.
C17_DefaultIffMarker ==
    (lineOut # None /\ lineOut[1] # None)
    => (lineOut[1][1].is_default
        <=> (lineIn.lead.star \/ lineIn.name.star \/ lineIn.vol.star))

C17_Witness ==
    /\ lineOut # None /\ lineOut[1] # None
    /\ ~lineIn.lead.star /\ ~lineIn.name.star /\ lineIn.vol.star
    /\ lineOut[1][1].is_default

\* C18: a load_cache that runs while other processes overwrite the cache
\* file either reads a text some save_cache wrote completely, or fails to
\* parse and misses; a hit returns the mapping of a completely written entry.
C18_TornReadIsMiss ==
    (rd.pc = "done" /\ rd.hit)
    => /\ rd.buf \in written
       /\ rd.result = OkSome(rd.buf[4].c)

====
